---- MODULE Spec2Model ----
(***************************************************************************)
(* A model of searcher.py: a listener that indexes card ownership from     *)
(* embeds into a JSON-backed mapping, and a small HTTP surface (status,    *)
(* logs, search) served from the same process.                             *)
(*                                                                         *)
(* Python strings are modelled as sequences of one-character strings, so   *)
(* that the regular expressions, lower(), strip(), split() and the         *)
(* substring tests are computed as the code computes them.  None and the   *)
(* empty string are both the empty sequence: the code only ever tests them *)
(* for truthiness.                                                         *)
(***************************************************************************)
EXTENDS Naturals, Sequences, FiniteSets

\* ------------------------------------------------------------------ bounds
\* on_message deliveries in one run of the model
MaxMsgs == 2
\* file writes that may fail in one run of the model
MaxFails == 1
\* log_to_global calls in one run of SpecLog
MaxLogCalls == 52
\* lines of an embed body in SpecExtract
MaxLines == 3

\* ------------------------------------------------------- program constants
TARGET_BOT_ID == "1261042392413372520"
TARGET_SERVER_ID == "123456789012345678"
OTHER_ID == "42"
\* LOG_MESSAGES = LOG_MESSAGES[:50]
LOG_LIMIT == 50

\* ------------------------------------------------------------ characters
UpperChars == <<"A","B","C","D","E","F","G","H","I","J","K","L","M",
                "N","O","P","Q","R","S","T","U","V","W","X","Y","Z">>
LowerChars == <<"a","b","c","d","e","f","g","h","i","j","k","l","m",
                "n","o","p","q","r","s","t","u","v","w","x","y","z">>
DigitChars == <<"0","1","2","3","4","5","6","7","8","9">>

Range(s) == {s[i] : i \in 1..Len(s)}

\* \d
IsDigit(c) == c \in Range(DigitChars)
\* \s
IsSpace(c) == c \in {" ", "\t", "\n", "\r", "\f"}
\* [A-Z-]
IsTagChar(c) == c \in Range(UpperChars) \cup {"-"}

\* the position after the longest run of characters of one class starting
\* at position i (a greedy X*)
SkipDigits(s, i) ==
    CHOOSE j \in i..(Len(s) + 1) :
        /\ \A k \in i..(j - 1) : IsDigit(s[k])
        /\ (j = Len(s) + 1 \/ ~IsDigit(s[j]))

SkipSpace(s, i) ==
    CHOOSE j \in i..(Len(s) + 1) :
        /\ \A k \in i..(j - 1) : IsSpace(s[k])
        /\ (j = Len(s) + 1 \/ ~IsSpace(s[j]))

SkipTag(s, i) ==
    CHOOSE j \in i..(Len(s) + 1) :
        /\ \A k \in i..(j - 1) : IsTagChar(s[k])
        /\ (j = Len(s) + 1 \/ ~IsTagChar(s[j]))

\* str.lower()
LowerChar(c) ==
    IF c \in Range(UpperChars)
    THEN LowerChars[CHOOSE i \in 1..26 : UpperChars[i] = c]
    ELSE c

lower(s) == [i \in 1..Len(s) |-> LowerChar(s[i])]

\* str.strip()
strip(s) ==
    LET a == SkipSpace(s, 1)
        b == IF a > Len(s) THEN a - 1
             ELSE CHOOSE j \in a..Len(s) :
                    /\ ~IsSpace(s[j])
                    /\ \A k \in (j + 1)..Len(s) : IsSpace(s[k])
    IN  SubSeq(s, a, b)

\* sub in s
Contains(s, sub) ==
    \E i \in 0..(Len(s) - Len(sub)) : SubSeq(s, i + 1, i + Len(sub)) = sub

\* s.split(sep) for a one-character separator: n separators give n+1 pieces
RECURSIVE split(_, _)
split(s, sep) ==
    IF \A i \in 1..Len(s) : s[i] # sep
    THEN <<s>>
    ELSE LET p == CHOOSE i \in 1..Len(s) :
                    s[i] = sep /\ \A k \in 1..(i - 1) : s[k] # sep
         IN  <<SubSeq(s, 1, p - 1)>> \o split(SubSeq(s, p + 1, Len(s)), sep)

\* s.split("'s")[0]: the text before the first "'s"
owner_label(s) ==
    IF Contains(s, <<"'", "s">>)
    THEN LET p == CHOOSE i \in 1..(Len(s) - 1) :
                    /\ s[i] = "'" /\ s[i + 1] = "s"
                    /\ \A k \in 1..(i - 1) : ~(s[k] = "'" /\ s[k + 1] = "s")
         IN  SubSeq(s, 1, p - 1)
    ELSE s

\* ------------------------------------------------------- clean_card_name
\* re.sub(r'^\d+\s*-\s*[A-Z-]*\s*', '', line): every piece is greedy and no
\* piece can give characters back to the next one, so the match is the
\* greedy one or there is none.
re_sub_prefix(line) ==
    LET d  == SkipDigits(line, 1)
        s1 == SkipSpace(line, d)
    IN  IF d = 1 \/ s1 > Len(line) \/ line[s1] # "-"
        THEN line
        ELSE LET s2 == SkipSpace(line, s1 + 1)
                 t  == SkipTag(line, s2)
                 s3 == SkipSpace(line, t)
             IN  SubSeq(line, s3, Len(line))

\* The except branch of clean_card_name is dead: re.sub does not raise on a str.
clean_card_name(line) == strip(re_sub_prefix(line))

MapClean(lines) == [i \in 1..Len(lines) |-> clean_card_name(lines[i])]

\* [self.clean_card_name(line) for line in embed.description.split('\n')]
cards_in_embed(description) == MapClean(split(description, "\n"))

NonBlank(card) == card # <<>>

\* the card names the loop of on_message acts on (if not card_name: continue)
indexed_cards(description) == SelectSeq(cards_in_embed(description), NonBlank)

\* ---------------------------------------------------------- the dict
\* A Python dict of card name -> list of owner ids, in insertion order: a
\* sequence of entries [k, v] with distinct keys.
EmptyDict == <<>>

Keys(d) == {d[i].k : i \in 1..Len(d)}

\* card_name in d
DictHas(d, key) == key \in Keys(d)

\* d[key]
DictGet(d, key) == d[CHOOSE i \in 1..Len(d) : d[i].k = key].v

\* d[key] = value
DictSet(d, key, value) ==
    IF DictHas(d, key)
    THEN [i \in 1..Len(d) |-> IF d[i].k = key THEN [k |-> key, v |-> value] ELSE d[i]]
    ELSE Append(d, [k |-> key, v |-> value])

\* dict equality is equality of the mappings, whatever the insertion order
AsMap(d) == [key \in Keys(d) |-> DictGet(d, key)]

\* ---------------------------------------------------- the persisted file
\* DATABASE_FILE is absent, holds text that is no JSON, or holds a JSON
\* object: its members in document order.
AbsentFile == [kind |-> "absent", members |-> <<>>]
MalformedFile == [kind |-> "malformed", members |-> <<>>]

\* a faulty dump that writes the first entry only (fault injection for C6)
json_dump_first(db) ==
    [kind |-> "json",
     members |-> [i \in 1..(IF Len(db) = 0 THEN 0 ELSE 1) |-> <<db[i].k, db[i].v>>]]

\* json.dump(db, f, indent=4): one member per dict entry, in dict order
json_dump(db) ==
    [kind |-> "json", members |-> [i \in 1..Len(db) |-> <<db[i].k, db[i].v>>]]

\* json.load(f) of an object: members in order, a repeated name overrides
RECURSIVE json_object(_, _)
json_object(members, acc) ==
    IF members = <<>> THEN acc
    ELSE json_object(Tail(members), DictSet(acc, Head(members)[1], Head(members)[2]))

load_database(f) ==
    IF f.kind = "json" THEN json_object(f.members, EmptyDict) ELSE EmptyDict

\* ------------------------------------------------------------- api_search
\* str < str: lexicographic by code point (owner ids are digit strings)
Ord(c) == CHOOSE i \in 1..10 : DigitChars[i] = c

StrLess(a, b) ==
    \E i \in 1..(Len(b)) :
        /\ \A k \in 1..(i - 1) : k <= Len(a) /\ a[k] = b[k]
        /\ (i = Len(a) + 1 \/ (i <= Len(a) /\ Ord(a[i]) < Ord(b[i])))

\* sorted(list(found_ids))
RECURSIVE sorted(_)
sorted(S) ==
    IF S = {} THEN <<>>
    ELSE LET m == CHOOSE x \in S : \A y \in S : x = y \/ StrLess(x, y)
         IN  <<m>> \o sorted(S \ {m})

\* a faulty query normalisation that forgets strip() (fault injection for C4)
normalize_query_no_strip(q) == lower(q)

\* query = request.args.get('q', '').lower().strip()
normalize_query(q) == strip(lower(q))

\* the loop over db.items(): found_ids.update(owner_list) for matching cards
RECURSIVE found_ids(_, _, _)
found_ids(db, query, acc) ==
    IF db = <<>> THEN acc
    ELSE found_ids(Tail(db), query,
                   IF Contains(lower(Head(db).k), query)
                   THEN acc \cup Range(Head(db).v)
                   ELSE acc)

search_owners(f, q) ==
    LET query == normalize_query(q)
    IN  IF query = <<>> THEN <<>>
        ELSE sorted(found_ids(load_database(f), query, {}))

\* ---------------------------------------------------------- owner id
AVATARS == <<"/","a","v","a","t","a","r","s","/">>

\* re.search(r"/avatars/(\d+)/", url): the leftmost position where the
\* literal, at least one digit and a slash follow each other; 0 if none
MatchAt(url, i) ==
    /\ i + 8 <= Len(url)
    /\ SubSeq(url, i, i + 8) = AVATARS
    /\ LET e == SkipDigits(url, i + 9)
       IN  e > i + 9 /\ e <= Len(url) /\ url[e] = "/"

owner_id_match(url) ==
    IF \E i \in 1..Len(url) : MatchAt(url, i)
    THEN CHOOSE i \in 1..Len(url) :
            MatchAt(url, i) /\ \A k \in 1..(i - 1) : ~MatchAt(url, k)
    ELSE 0

\* owner_id_match.group(1)
owner_id_of(url) ==
    LET i == owner_id_match(url)
    IN  SubSeq(url, i + 9, SkipDigits(url, i + 9) - 1)

\* ------------------------------------------------------------- inputs
\* owner ids, card lines and author names the listener is fed
Owner2 == <<"2">>
Owner10 == <<"1","0">>

\* "h/avatars/2/x" and "h/avatars/10/x"
Url2 == <<"h">> \o AVATARS \o Owner2 \o <<"/","x">>
Url10 == <<"h">> \o AVATARS \o Owner10 \o <<"/","x">>
\* "h/embed/avatars/0.png": a default avatar, no owner id in it
UrlDefault == <<"h","/","e","m","b","e","d">> \o AVATARS \o <<"0",".","p","n","g">>

\* "Al's Collection", "WISHLIST", "Al's Deck"
NameCollection == <<"A","l","'","s"," ","C","o","l","l","e","c","t","i","o","n">>
NameWishlist == <<"W","I","S","H","L","I","S","T">>
NameDeck == <<"A","l","'","s"," ","D","e","c","k">>

\* "1 - A Ab\n\n2 - B cd" and "3 - C Ab"
Body1 == <<"1"," ","-"," ","A"," ","A","b","\n","\n","2"," ","-"," ","B"," ","c","d">>
Body2 == <<"3"," ","-"," ","C"," ","A","b">>

Embed(name, url, body) == [name |-> name, icon_url |-> url, description |-> body]

E1 == Embed(NameCollection, Url2, Body1)
E2 == Embed(NameWishlist, Url10, Body2)
\* embeds that do not qualify
BadName == Embed(NameDeck, Url10, Body1)
BadUrl == Embed(NameCollection, UrlDefault, Body1)
NoIcon == Embed(NameCollection, <<>>, Body1)
NoBody == Embed(NameCollection, Url10, <<>>)

Message(guild, author, embeds) == [guild |-> guild, author |-> author, embeds |-> embeds]

\* guild "" stands for message.guild is None
Eligible(embeds) == Message(TARGET_SERVER_ID, TARGET_BOT_ID, embeds)

Messages ==
    { Eligible(<<E1>>), Eligible(<<E2>>), Eligible(<<E1, E2>>),
      Eligible(<<E1, E1, E2>>),
      Eligible(<<BadName, E2>>), Eligible(<<BadUrl, E1>>),
      Eligible(<<NoIcon>>), Eligible(<<NoBody>>), Eligible(<<>>),
      Message("", TARGET_BOT_ID, <<E1>>),
      Message(OTHER_ID, TARGET_BOT_ID, <<E1>>),
      Message(TARGET_SERVER_ID, OTHER_ID, <<E2>>) }

\* "", "B", "b ", "cd"
Queries == { <<>>, <<"B">>, <<"b"," ">>, <<"c","d">> }

\* what DATABASE_FILE may hold when the process starts
InitialFiles ==
    { AbsentFile, MalformedFile,
      json_dump(<<[k |-> <<"A","b"," ","c">>, v |-> <<Owner10>>]>>) }

Tasks == {1, 2}
NoTask == 0

\* ----------------------------------------------------------------- state
VARIABLES
    token,          \* USER_TOKEN is set in the environment
    main_pc,        \* the main thread: "init", "serving"
    bot_pc,         \* the bot thread: "start", "constructed", "running",
                    \*   "crashed", "stopped", "exited"
    BOT_STATUS,     \* the global BOT_STATUS
    LOG_MESSAGES,   \* the global LOG_MESSAGES
    clock,          \* log_to_global calls so far: stamps the entries
    card_database,  \* IndexerBot.card_database
    db_lock,        \* IndexerBot.db_lock: the task holding it, or NoTask
    file,           \* DATABASE_FILE
    last_write,     \* outcome of the last save_database: "none", "ok", "failed"
    fails,          \* failed writes so far
    delivered,      \* on_message invocations so far
    task,           \* per on_message invocation: its position and locals
    response,       \* the last HTTP response
    body,           \* SpecExtract: an embed body and the lines it was built from
    extracted       \* SpecExtract: the card names extracted from body

vars == <<token, main_pc, bot_pc, BOT_STATUS, LOG_MESSAGES, clock, card_database,
          db_lock, file, last_write, fails, delivered, task, response, body,
          extracted>>

listener_vars == <<card_database, db_lock, file, last_write, fails, delivered, task>>
extract_vars == <<body, extracted>>

IdleTask ==
    [pc |-> "idle", msg |-> Message("", "", <<>>), idx |-> 0, owner_id |-> <<>>,
     owner_name |-> <<>>, cards |-> <<>>, line |-> 0, updated_cards |-> <<>>]

Status(text, color) == [text |-> text, color |-> color]

NoResponse ==
    [route |-> "none", q |-> <<>>, status |-> Status("", ""), logs |-> <<>>,
     owners |-> <<>>]
NoBodyYet == [lines |-> <<>>, text |-> <<>>, done |-> FALSE]

Init ==
    /\ token \in BOOLEAN
    /\ main_pc = "init"
    /\ bot_pc = "start"
    /\ BOT_STATUS = Status("Offline", "grey")
    /\ LOG_MESSAGES = <<>>
    /\ clock = 0
    /\ card_database = EmptyDict
    /\ db_lock = NoTask
    /\ file \in InitialFiles
    /\ last_write = "none"
    /\ fails = 0
    /\ delivered = 0
    /\ task = [t \in Tasks |-> IdleTask]
    /\ response = NoResponse
    /\ body = NoBodyYet
    /\ extracted = <<>>

\* ------------------------------------------------------- the main thread
\* update_status / log_to_global, the callbacks handed to IndexerBot
update_status(text, color) == BOT_STATUS' = Status(text, color)

\* __main__: update_status("Connecting...", ...), bot_thread.start(), app.run(...)
Main ==
    /\ main_pc = "init"
    /\ main_pc' = "serving"
    /\ update_status("Connecting...", "Connecting")
    /\ UNCHANGED <<token, bot_pc, LOG_MESSAGES, clock, response>>
    /\ UNCHANGED listener_vars
    /\ UNCHANGED extract_vars

\* ------------------------------------------------------- the bot thread
\* run_bot: bot_instance = IndexerBot(...), whose __init__ loads the database
Construct ==
    /\ main_pc = "serving"
    /\ bot_pc = "start"
    /\ bot_pc' = "constructed"
    /\ card_database' = load_database(file)
    /\ UNCHANGED <<token, main_pc, BOT_STATUS, LOG_MESSAGES, clock, response>>
    /\ UNCHANGED <<db_lock, file, last_write, fails, delivered, task>>
    /\ UNCHANGED extract_vars

\* get_token with USER_TOKEN set, then bot_instance.run(token) starts
GetTokenOk ==
    /\ bot_pc = "constructed"
    /\ token
    /\ bot_pc' = "running"
    /\ UNCHANGED <<token, main_pc, BOT_STATUS, LOG_MESSAGES, clock, response>>
    /\ UNCHANGED listener_vars
    /\ UNCHANGED extract_vars

\* get_token without USER_TOKEN: sys.exit raises SystemExit in the bot
\* thread.  SystemExit is no Exception, so run_bot's handler does not catch
\* it; raised outside the main thread it ends that thread only.
GetTokenMissing ==
    /\ bot_pc = "constructed"
    /\ ~token
    /\ bot_pc' = "exited"
    /\ UNCHANGED <<token, main_pc, BOT_STATUS, LOG_MESSAGES, clock, response>>
    /\ UNCHANGED listener_vars
    /\ UNCHANGED extract_vars

\* a faulty listener whose callbacks outlive the crash (fault injection for C7)
ListenerAliveAfterCrash(pc) == pc \in {"running", "crashed"}

\* the client's callbacks are invoked from inside bot_instance.run(token)
ListenerAlive(pc) == pc = "running"

AllIdle == \A t \in Tasks : task[t].pc = "idle"

on_ready ==
    /\ ListenerAlive(bot_pc)
    /\ update_status("Online - Indexing", "green")
    /\ UNCHANGED <<token, main_pc, bot_pc, LOG_MESSAGES, clock, response>>
    /\ UNCHANGED listener_vars
    /\ UNCHANGED extract_vars

on_disconnect ==
    /\ ListenerAlive(bot_pc)
    /\ update_status("Disconnected", "orange")
    /\ UNCHANGED <<token, main_pc, bot_pc, LOG_MESSAGES, clock, response>>
    /\ UNCHANGED listener_vars
    /\ UNCHANGED extract_vars

\* bot_instance.run(token) raises: except Exception -> update_status("Crashed", ...).
\* run() raises once its event loop has stopped, so no callback is in progress.
Crash ==
    /\ bot_pc = "running"
    /\ AllIdle
    /\ bot_pc' = "crashed"
    /\ update_status("Crashed", "Crashed")
    /\ UNCHANGED <<token, main_pc, LOG_MESSAGES, clock, response>>
    /\ UNCHANGED listener_vars
    /\ UNCHANGED extract_vars

\* bot_instance.run(token) returns: run_bot ends without touching the status
RunReturns ==
    /\ bot_pc = "running"
    /\ AllIdle
    /\ bot_pc' = "stopped"
    /\ UNCHANGED <<token, main_pc, BOT_STATUS, LOG_MESSAGES, clock, response>>
    /\ UNCHANGED listener_vars
    /\ UNCHANGED extract_vars

\* ------------------------------------------------------------ on_message
COLLECTION == <<"c","o","l","l","e","c","t","i","o","n">>
WISHLIST == <<"w","i","s","h","l","i","s","t">>

\* not (guild is None or guild.id != TARGET_SERVER_ID
\*      or author.id != TARGET_BOT_ID or not message.embeds)
is_eligible(m) ==
    /\ m.guild # ""
    /\ m.guild = TARGET_SERVER_ID
    /\ m.author = TARGET_BOT_ID
    /\ m.embeds # <<>>

\* a faulty test that forgets the collection / wishlist condition (fault
\* injection for C9)
qualifies_any_name(e) ==
    /\ e.name # <<>> /\ e.description # <<>> /\ e.icon_url # <<>>
    /\ owner_id_match(e.icon_url) # 0

\* the three tests an embed passes before it is indexed
qualifies(e) ==
    /\ e.name # <<>> /\ e.description # <<>> /\ e.icon_url # <<>>
    /\ (Contains(lower(e.name), COLLECTION) \/ Contains(lower(e.name), WISHLIST))
    /\ owner_id_match(e.icon_url) # 0

\* a faulty membership test (fault injection for C1)
owner_known_never(db, card, owner) == FALSE

\* not (owner_id not in self.card_database[card_name])
owner_known(db, card, owner) == owner \in Range(DictGet(db, card))

\* a faulty handler that logs and saves after every embed (fault injection
\* for C10)
has_updates_always(updated) == TRUE

\* if updated_cards:
has_updates(updated) == updated # <<>>

\* a lock that excludes no one (fault injection for C8)
CanAcquireUnguarded(lock) == TRUE

\* with self.db_lock: entered only while no one holds the lock
CanAcquire(lock) == lock = NoTask

SetTask(t, r) == task' = [task EXCEPT ![t] = r]

\* the client dispatches a message event: a new on_message invocation
Deliver(t, m) ==
    /\ ListenerAlive(bot_pc)
    /\ task[t].pc = "idle"
    /\ delivered < MaxMsgs
    /\ delivered' = delivered + 1
    /\ SetTask(t, [IdleTask EXCEPT !.pc = "filter", !.msg = m])
    /\ UNCHANGED <<token, main_pc, bot_pc, BOT_STATUS, LOG_MESSAGES, clock, response>>
    /\ UNCHANGED <<card_database, db_lock, file, last_write, fails>>
    /\ UNCHANGED extract_vars

\* the eligibility test that opens on_message
Filter(t) ==
    /\ ListenerAlive(bot_pc)
    /\ task[t].pc = "filter"
    /\ IF is_eligible(task[t].msg)
       THEN SetTask(t, [task[t] EXCEPT !.pc = "embed", !.idx = 1])
       ELSE SetTask(t, IdleTask)
    /\ UNCHANGED <<token, main_pc, bot_pc, BOT_STATUS, LOG_MESSAGES, clock, response>>
    /\ UNCHANGED <<card_database, db_lock, file, last_write, fails, delivered>>
    /\ UNCHANGED extract_vars

\* for embed in message.embeds: ... up to updated_cards = []
NextEmbed(t) ==
    /\ ListenerAlive(bot_pc)
    /\ task[t].pc = "embed"
    /\ LET r == task[t]
       IN  IF r.idx > Len(r.msg.embeds)
           THEN SetTask(t, IdleTask)
           ELSE LET e == r.msg.embeds[r.idx]
                IN  IF qualifies(e)
                    THEN SetTask(t, [r EXCEPT
                            !.pc = "acquire",
                            !.owner_id = owner_id_of(e.icon_url),
                            !.owner_name = owner_label(e.name),
                            !.cards = cards_in_embed(e.description),
                            !.line = 1,
                            !.updated_cards = <<>>])
                    ELSE SetTask(t, [r EXCEPT !.idx = r.idx + 1])
    /\ UNCHANGED <<token, main_pc, bot_pc, BOT_STATUS, LOG_MESSAGES, clock, response>>
    /\ UNCHANGED <<card_database, db_lock, file, last_write, fails, delivered>>
    /\ UNCHANGED extract_vars

\* with self.db_lock: (acquire)
Acquire(t) ==
    /\ ListenerAlive(bot_pc)
    /\ task[t].pc = "acquire"
    /\ CanAcquire(db_lock)
    /\ db_lock' = t
    /\ SetTask(t, [task[t] EXCEPT !.pc = "card"])
    /\ UNCHANGED <<token, main_pc, bot_pc, BOT_STATUS, LOG_MESSAGES, clock, response>>
    /\ UNCHANGED <<card_database, file, last_write, fails, delivered>>
    /\ UNCHANGED extract_vars

\* one round of for card_name in cards_in_embed: skip a blank name, create
\* the entry, test membership; past the last card the with block ends
\* (release) and if updated_cards: decides what follows
CheckCard(t) ==
    /\ ListenerAlive(bot_pc)
    /\ task[t].pc = "card"
    /\ LET r == task[t]
       IN  IF r.line > Len(r.cards)
           THEN /\ db_lock' = NoTask
                /\ UNCHANGED card_database
                /\ IF has_updates(r.updated_cards)
                   THEN SetTask(t, [r EXCEPT !.pc = "log"])
                   ELSE SetTask(t, [r EXCEPT !.pc = "embed", !.idx = r.idx + 1])
           ELSE LET card == r.cards[r.line]
                    db1 == IF DictHas(card_database, card) THEN card_database
                           ELSE DictSet(card_database, card, <<>>)
                IN  /\ UNCHANGED db_lock
                    /\ IF card = <<>>
                       THEN /\ UNCHANGED card_database
                            /\ SetTask(t, [r EXCEPT !.line = r.line + 1])
                       ELSE /\ card_database' = db1
                            /\ IF owner_known(db1, card, r.owner_id)
                               THEN SetTask(t, [r EXCEPT !.line = r.line + 1])
                               ELSE SetTask(t, [r EXCEPT !.pc = "append"])
    /\ UNCHANGED <<token, main_pc, bot_pc, BOT_STATUS, LOG_MESSAGES, clock, response>>
    /\ UNCHANGED <<file, last_write, fails, delivered>>
    /\ UNCHANGED extract_vars

\* self.card_database[card_name].append(owner_id); updated_cards.append(card_name)
AppendOwner(t) ==
    /\ ListenerAlive(bot_pc)
    /\ task[t].pc = "append"
    /\ LET r == task[t]
           card == r.cards[r.line]
       IN  /\ card_database' =
                DictSet(card_database, card, Append(DictGet(card_database, card), r.owner_id))
           /\ SetTask(t, [r EXCEPT !.pc = "card", !.line = r.line + 1,
                                   !.updated_cards = Append(r.updated_cards, card)])
    /\ UNCHANGED <<token, main_pc, bot_pc, BOT_STATUS, LOG_MESSAGES, clock, response>>
    /\ UNCHANGED <<db_lock, file, last_write, fails, delivered>>
    /\ UNCHANGED extract_vars

\* the log line of on_message: how many cards, from whom, stamped by the clock
LogEntry(r, now) == [at |-> now, n |-> Len(r.updated_cards), owner |-> r.owner_name]

\* log_to_global, first statement: LOG_MESSAGES.insert(0, ...)
LogInsert(t) ==
    /\ ListenerAlive(bot_pc)
    /\ task[t].pc = "log"
    /\ clock' = clock + 1
    /\ LOG_MESSAGES' = <<LogEntry(task[t], clock + 1)>> \o LOG_MESSAGES
    /\ SetTask(t, [task[t] EXCEPT !.pc = "trunc"])
    /\ UNCHANGED <<token, main_pc, bot_pc, BOT_STATUS, response>>
    /\ UNCHANGED <<card_database, db_lock, file, last_write, fails, delivered>>
    /\ UNCHANGED extract_vars

\* LOG_MESSAGES[:50]
truncate(logs) == SubSeq(logs, 1, IF Len(logs) < LOG_LIMIT THEN Len(logs) ELSE LOG_LIMIT)

\* log_to_global, second statement: LOG_MESSAGES = LOG_MESSAGES[:50]
LogTruncate(t) ==
    /\ ListenerAlive(bot_pc)
    /\ task[t].pc = "trunc"
    /\ LOG_MESSAGES' = truncate(LOG_MESSAGES)
    /\ SetTask(t, [task[t] EXCEPT !.pc = "save"])
    /\ UNCHANGED <<token, main_pc, bot_pc, BOT_STATUS, clock, response>>
    /\ UNCHANGED <<card_database, db_lock, file, last_write, fails, delivered>>
    /\ UNCHANGED extract_vars

\* save_database(self.card_database), the write succeeds
SaveOk(t) ==
    /\ ListenerAlive(bot_pc)
    /\ task[t].pc = "save"
    /\ file' = json_dump(card_database)
    /\ last_write' = "ok"
    /\ SetTask(t, [task[t] EXCEPT !.pc = "embed", !.idx = task[t].idx + 1])
    /\ UNCHANGED <<token, main_pc, bot_pc, BOT_STATUS, LOG_MESSAGES, clock, response>>
    /\ UNCHANGED <<card_database, db_lock, fails, delivered>>
    /\ UNCHANGED extract_vars

\* save_database(self.card_database), IOError: open fails and the file is
\* as it was, or the write fails after open truncated it and what is left
\* is no JSON; the error is logged and on_message goes on
SaveFail(t) ==
    /\ ListenerAlive(bot_pc)
    /\ task[t].pc = "save"
    /\ fails < MaxFails
    /\ fails' = fails + 1
    /\ file' \in {file, MalformedFile}
    /\ last_write' = "failed"
    /\ SetTask(t, [task[t] EXCEPT !.pc = "embed", !.idx = task[t].idx + 1])
    /\ UNCHANGED <<token, main_pc, bot_pc, BOT_STATUS, LOG_MESSAGES, clock, response>>
    /\ UNCHANGED <<card_database, db_lock, delivered>>
    /\ UNCHANGED extract_vars

\* ------------------------------------------------------ the HTTP handlers
\* served by app.run in the main thread, whatever the bot thread does
api_status ==
    /\ main_pc = "serving"
    /\ response' = [NoResponse EXCEPT !.route = "status", !.status = BOT_STATUS]
    /\ UNCHANGED <<token, main_pc, bot_pc, BOT_STATUS, LOG_MESSAGES, clock>>
    /\ UNCHANGED listener_vars
    /\ UNCHANGED extract_vars

api_logs ==
    /\ main_pc = "serving"
    /\ response' = [NoResponse EXCEPT !.route = "logs", !.logs = LOG_MESSAGES]
    /\ UNCHANGED <<token, main_pc, bot_pc, BOT_STATUS, LOG_MESSAGES, clock>>
    /\ UNCHANGED listener_vars
    /\ UNCHANGED extract_vars

api_search(q) ==
    /\ main_pc = "serving"
    /\ response' = [NoResponse EXCEPT !.route = "search", !.q = q,
                                      !.owners = search_owners(file, q)]
    /\ UNCHANGED <<token, main_pc, bot_pc, BOT_STATUS, LOG_MESSAGES, clock>>
    /\ UNCHANGED listener_vars
    /\ UNCHANGED extract_vars

\* The event loop of the listener runs one callback at a time and on_message
\* never awaits: under Spec one invocation (task 1) runs from delivery to
\* return, while the HTTP handlers, in another thread, interleave with its
\* steps.
Next ==
    \/ Main
    \/ Construct
    \/ GetTokenOk
    \/ GetTokenMissing
    \/ on_ready
    \/ on_disconnect
    \/ Crash
    \/ RunReturns
    \/ \E m \in Messages : Deliver(1, m)
    \/ \E t \in Tasks : Filter(t)
    \/ \E t \in Tasks : NextEmbed(t)
    \/ \E t \in Tasks : Acquire(t)
    \/ \E t \in Tasks : CheckCard(t)
    \/ \E t \in Tasks : AppendOwner(t)
    \/ \E t \in Tasks : LogInsert(t)
    \/ \E t \in Tasks : LogTruncate(t)
    \/ \E t \in Tasks : SaveOk(t)
    \/ \E t \in Tasks : SaveFail(t)
    \/ api_status
    \/ api_logs
    \/ \E q \in Queries : api_search(q)

Spec == Init /\ [][Next]_vars

\* SpecConc: on_message invocations that overlap, as if dispatched from
\* several threads; every step of one may fall between two steps of another.
NextConc ==
    \/ Main
    \/ Construct
    \/ GetTokenOk
    \/ GetTokenMissing
    \/ \E t \in Tasks, m \in Messages : Deliver(t, m)
    \/ \E t \in Tasks : Filter(t)
    \/ \E t \in Tasks : NextEmbed(t)
    \/ \E t \in Tasks : Acquire(t)
    \/ \E t \in Tasks : CheckCard(t)
    \/ \E t \in Tasks : AppendOwner(t)
    \/ \E t \in Tasks : LogInsert(t)
    \/ \E t \in Tasks : LogTruncate(t)
    \/ \E t \in Tasks : SaveOk(t)
    \/ \E t \in Tasks : SaveFail(t)

SpecConc == Init /\ [][NextConc]_vars

\* ------------------------------------------------------------ SpecLog
\* The log surface alone: task 1 has indexed the card of E2 and stands at its
\* log line (InitLog is a state Spec reaches); Reindex stands for everything on_message does between two log
\* lines (the save, the next embed, its card loop), none of which touches
\* LOG_MESSAGES.
AtLogLine ==
    [pc |-> "log", msg |-> Eligible(<<E2>>), idx |-> 1, owner_id |-> Owner10,
     owner_name |-> NameWishlist, cards |-> <<<<"A","b">>>>, line |-> 2,
     updated_cards |-> <<<<"A","b">>>>]

InitLog ==
    /\ token = TRUE
    /\ main_pc = "serving"
    /\ bot_pc = "running"
    /\ BOT_STATUS = Status("Online - Indexing", "green")
    /\ LOG_MESSAGES = <<>>
    /\ clock = 0
    /\ card_database = <<[k |-> <<"A","b">>, v |-> <<Owner10>>]>>
    /\ db_lock = NoTask
    /\ file = AbsentFile
    /\ last_write = "none"
    /\ fails = 0
    /\ delivered = 1
    /\ task = [t \in Tasks |-> IF t = 1 THEN AtLogLine ELSE IdleTask]
    /\ response = NoResponse
    /\ body = NoBodyYet
    /\ extracted = <<>>

Reindex(t) ==
    /\ ListenerAlive(bot_pc)
    /\ task[t].pc = "save"
    /\ clock < MaxLogCalls
    /\ SetTask(t, [task[t] EXCEPT !.pc = "log"])
    /\ UNCHANGED <<token, main_pc, bot_pc, BOT_STATUS, LOG_MESSAGES, clock, response>>
    /\ UNCHANGED <<card_database, db_lock, file, last_write, fails, delivered>>
    /\ UNCHANGED extract_vars

NextLog ==
    \/ LogInsert(1)
    \/ LogTruncate(1)
    \/ Reindex(1)
    \/ api_logs

SpecLog == InitLog /\ [][NextLog]_vars

\* -------------------------------------------------------- SpecExtract
\* Extraction as a function of the embed body.  A body is built from up to
\* MaxLines lines, each a card line "<digits> - <tag> <name>", a bare name,
\* or a blank line.
Line(form, digits, tag, name) ==
    [form |-> form, digits |-> digits, tag |-> tag, name |-> name]

CardDigits == { <<"1">>, <<"1","2">> }
CardTags == { <<>>, <<"A">>, <<"A","-","B">> }
CardNames == { <<"a","b">>, <<"A","b">>, <<"a"," ","B">> }

LineForms ==
    { Line("card", d, t, n) : d \in CardDigits, t \in CardTags, n \in CardNames }
    \cup { Line("bare", <<>>, <<>>, n) : n \in CardNames }
    \cup { Line("blank", <<>>, <<>>, <<>>), Line("blank", <<>>, <<>>, <<" ">>) }

Render(l) ==
    IF l.form = "card"
    THEN l.digits \o <<" ","-"," ">> \o l.tag \o <<" ">> \o l.name
    ELSE l.name

\* "\n".join(lines)
RECURSIVE Join(_)
Join(lines) ==
    IF Len(lines) = 1 THEN Render(lines[1])
    ELSE Render(lines[1]) \o <<"\n">> \o Join(Tail(lines))

Bodies ==
    UNION { [1..n -> LineForms] : n \in 1..MaxLines }

InitExtract ==
    /\ token = TRUE
    /\ main_pc = "init"
    /\ bot_pc = "start"
    /\ BOT_STATUS = Status("Offline", "grey")
    /\ LOG_MESSAGES = <<>>
    /\ clock = 0
    /\ card_database = EmptyDict
    /\ db_lock = NoTask
    /\ file = AbsentFile
    /\ last_write = "none"
    /\ fails = 0
    /\ delivered = 0
    /\ task = [t \in Tasks |-> IdleTask]
    /\ response = NoResponse
    /\ \E ls \in Bodies : body = [lines |-> ls, text |-> Join(ls), done |-> FALSE]
    /\ extracted = <<>>

\* cards_in_embed and the blank test of the loop, applied to the body
Extract ==
    /\ ~body.done
    /\ extracted' = indexed_cards(body.text)
    /\ body' = [body EXCEPT !.done = TRUE]
    /\ UNCHANGED <<token, main_pc, bot_pc, BOT_STATUS, LOG_MESSAGES, clock, response>>
    /\ UNCHANGED listener_vars

NextExtract == Extract

SpecExtract == InitExtract /\ [][NextExtract]_vars

\* =================================================================== claims
CardA == <<"A","b">>

NoDuplicates(owners) ==
    \A i \in 1..Len(owners) : \A j \in 1..Len(owners) : i # j => owners[i] # owners[j]

Occurrences(owners, o) == Cardinality({i \in 1..Len(owners) : owners[i] = o})

\* C1: whatever messages on_message has handled, no owner list of the
\* in-memory database holds an owner id twice.
C1_UniqueOwners ==
    \A i \in 1..Len(card_database) : NoDuplicates(card_database[i].v)

\* C1 witness: E1 is delivered a second time; the invocation has passed the
\* card "Ab", already owned by "2", added nothing, and "2" is there once.
C1_Witness ==
    /\ delivered = 2
    /\ task[1].pc = "card" /\ task[1].line = 2 /\ task[1].updated_cards = <<>>
    /\ task[1].cards[1] = CardA /\ task[1].owner_id = Owner2
    /\ DictHas(card_database, CardA)
    /\ Occurrences(DictGet(card_database, CardA), Owner2) = 1

\* C2: without USER_TOKEN the process ends before any work: the listener
\* never loads the database and no HTTP request is answered.
C2_ExitsBeforeWork ==
    ~token => (bot_pc = "start" /\ response.route = "none")

NewestFirst(logs) ==
    \A i \in 1..Len(logs) : \A j \in 1..Len(logs) : i < j => logs[i].at > logs[j].at

\* C3: every response of /api/logs holds at most 50 entries, newest first.
C3_LogsBounded ==
    response.route = "logs" =>
        (Len(response.logs) <= LOG_LIMIT /\ NewestFirst(response.logs))

\* the owner ids of the cards of db whose lowercased name contains the text
ExpectedOwners(db, text) ==
    UNION { IF Contains(lower(db[i].k), text) THEN Range(db[i].v) ELSE {}
            : i \in 1..Len(db) }

\* the list holds exactly the ids of S, each once, ascending
IsSortedListOf(list, S) ==
    /\ Range(list) = S
    /\ Len(list) = Cardinality(S)
    /\ \A i \in 1..Len(list) : \A j \in 1..Len(list) : i < j => StrLess(list[i], list[j])

\* owners is the sorted list of the owners of the cards of file f that
\* contain the text (each value is bound once, by a quantifier)
Answers(owners, f, text) ==
    \A db \in {load_database(f)} :
        \A S \in {ExpectedOwners(db, text)} : IsSortedListOf(owners, S)

Searched == response' # response /\ response'.route = "search"

\* C4 as stated: for every non-empty query q, /api/search answers with the
\* sorted owner ids of the persisted cards whose lowercased name contains
\* lowercased q.
C4_Original ==
    [][(Searched /\ response'.q # <<>>) =>
        Answers(response'.owners, file, lower(response'.q))]_vars

\* C4 amended: for every query q whose lowercased form, stripped of leading
\* and trailing whitespace, is non-empty, /api/search answers with the sorted
\* owner ids of the cards of the persisted file, as read at query time, whose
\* lowercased name contains that stripped lowercased form; a query that is
\* empty once stripped is answered with the empty list.
C4_Search ==
    [][Searched =>
        \A text \in {strip(lower(response'.q))} :
            IF text = <<>>
            THEN response'.owners = <<>>
            ELSE Answers(response'.owners, file, text)]_vars

\* C4 witness: "B" was searched while the file was behind the listener's
\* mapping; the answer is the file's, not the mapping's.
C4_Witness ==
    /\ response.route = "search" /\ response.q = <<"B">>
    /\ response.owners = <<Owner10>>
    /\ Answers(response.owners, file, <<"b">>)
    /\ DictHas(card_database, CardA)
    /\ Owner2 \in Range(DictGet(card_database, CardA))

IsCardLine(l) == l.form # "blank"

NameOf(l) == l.name

NamesOf(lines) ==
    LET kept == SelectSeq(lines, IsCardLine)
    IN  [i \in 1..Len(kept) |-> NameOf(kept[i])]

\* C5: extraction yields, in order, the name of every line that is not
\* blank: the prefix "<digits> - <tag> " is stripped and nothing else.
C5_ExtractsNames ==
    body.done => extracted = NamesOf(body.lines)

\* C6: when on_message has returned and the last write did not fail, the
\* mapping loaded from the file equals the in-memory mapping.
C6_Persisted ==
    (delivered > 0 /\ AllIdle /\ last_write # "failed") =>
        AsMap(load_database(file)) = AsMap(card_database)

\* C6 witness: one message with two qualifying embeds has been handled, "Ab"
\* has both owners in order, and the file holds the same.
C6_Witness ==
    /\ delivered = 1 /\ AllIdle /\ last_write = "ok"
    /\ DictHas(card_database, CardA)
    /\ DictGet(card_database, CardA) = <<Owner2, Owner10>>
    /\ Len(card_database) >= 2
    /\ DictGet(load_database(file), CardA) = <<Owner2, Owner10>>

Crashed == BOT_STATUS.text = "Crashed"

\* C7: a crash of the run loop sets the status to Crashed, Crashed stays
\* for ever, and the three HTTP handlers can still answer.
C7_CrashedTerminal ==
    /\ [](bot_pc = "crashed" => Crashed)
    /\ [](Crashed => (ENABLED api_status /\ ENABLED api_logs
                      /\ ENABLED (\E q \in Queries : api_search(q))))
    /\ [][Crashed => Crashed']_vars

\* C7 witness: /api/status has answered Crashed.
C7_Witness ==
    /\ bot_pc = "crashed"
    /\ response.route = "status" /\ response.status.text = "Crashed"

InSection(t) == task[t].pc \in {"card", "append"}

\* C8: at most one invocation is inside the create / check / append
\* sequence, it holds the lock, no owner list holds an id twice, and every
\* card an invocation counts as updated has its owner in the mapping.
C8_Exclusive ==
    /\ \A t \in Tasks : \A u \in Tasks : (InSection(t) /\ InSection(u)) => t = u
    /\ \A t \in Tasks : InSection(t) => db_lock = t
    /\ \A i \in 1..Len(card_database) : NoDuplicates(card_database[i].v)
    /\ \A t \in Tasks : \A i \in 1..Len(task[t].updated_cards) :
            /\ DictHas(card_database, task[t].updated_cards[i])
            /\ task[t].owner_id \in Range(DictGet(card_database, task[t].updated_cards[i]))

\* C8 witness: two invocations handle the same embed; one is between its
\* membership test and its append, the other waits for the lock.
C8_Witness ==
    /\ task[1].pc = "append" /\ task[2].pc = "acquire"
    /\ task[1].msg = task[2].msg /\ task[1].idx = task[2].idx

NotEligible(m) ==
    \/ m.guild = ""
    \/ m.guild # TARGET_SERVER_ID
    \/ m.author # TARGET_BOT_ID
    \/ m.embeds = <<>>

\* the embeds of the inputs that do not qualify: a name without collection
\* or wishlist, an icon URL without /avatars/<digits>/, no icon, no body
NonQualifying == {BadName, BadUrl, NoIcon, NoBody}

Untouched ==
    /\ card_database' = card_database
    /\ file' = file
    /\ LOG_MESSAGES' = LOG_MESSAGES

\* C9: handling an ineligible message returns with database, file and log
\* unchanged; handling a non-qualifying embed leaves them unchanged and moves
\* on to the next embed of the message.
C9_Frame ==
    [][\A t \in Tasks :
        /\ (task[t].pc = "filter" /\ NotEligible(task[t].msg) /\ task'[t] # task[t])
              => (Untouched /\ task'[t].pc = "idle")
        /\ (/\ task[t].pc = "embed"
            /\ task[t].idx <= Len(task[t].msg.embeds)
            /\ task[t].msg.embeds[task[t].idx] \in NonQualifying
            /\ task'[t] # task[t])
              => (/\ Untouched
                  /\ task'[t].pc = "embed"
                  /\ task'[t].msg = task[t].msg
                  /\ task'[t].idx = task[t].idx + 1)]_vars

\* C9 witness: the message <<BadName, E2>> has been handled to its end and
\* E2's card is indexed and saved.
C9_Witness ==
    /\ delivered = 1
    /\ task[1].pc = "embed" /\ task[1].msg = Eligible(<<BadName, E2>>) /\ task[1].idx = 3
    /\ DictHas(card_database, CardA)
    /\ DictGet(card_database, CardA) = <<Owner10>>
    /\ last_write = "ok"

IsPrefix(a, b) == Len(a) <= Len(b) /\ SubSeq(b, 1, Len(a)) = a

\* every card of the file is in the mapping, its owners a prefix of the
\* mapping's
Behind(f, db) ==
    LET fdb == load_database(f)
    IN  \A i \in 1..Len(fdb) :
            /\ DictHas(db, fdb[i].k)
            /\ IsPrefix(fdb[i].v, DictGet(db, fdb[i].k))

Wrote(t) == task[t].pc = "save" /\ task'[t].pc = "embed"

\* C10: only an embed that added a new pair writes the file; the file
\* changes by such a write alone and is never ahead of the mapping; a write
\* that succeeds persists the whole mapping, earlier unsaved pairs included.
C10_NoRetry ==
    [][/\ \A t \in Tasks : Wrote(t) => task[t].updated_cards # <<>>
       /\ (file' # file \/ last_write' # last_write) => \E t \in Tasks : Wrote(t)
       /\ bot_pc' # "start" => Behind(file', card_database')
       /\ \A t \in Tasks : (Wrote(t) /\ last_write' = "ok")
            => AsMap(load_database(file')) = AsMap(card_database')]_vars

\* C10 witness: of the embeds E1, E1, E2 of one message the first write
\* failed, the second embed added nothing and wrote nothing, and the write
\* after E2 persisted E1's pairs too.
C10_Witness ==
    /\ delivered = 1 /\ fails = 1 /\ last_write = "ok" /\ clock = 2
    /\ task[1].msg = Eligible(<<E1, E1, E2>>) /\ task[1].idx = 4
    /\ AsMap(load_database(file)) = AsMap(card_database)
    /\ DictGet(load_database(file), CardA) = <<Owner2, Owner10>>

====
